---------------------------- MODULE Spec2Model ----------------------------
(***************************************************************************)
(* EchoMe (COSC439 group project): the desktop photo application           *)
(* (src/PhotoApp/Form1.cs) and the Arduino firmware (src/firmware.c).      *)
(*                                                                         *)
(* Conventions of the model                                                *)
(*  - Distances are hundredths of a centimetre (2.8 cm = 280).  A double   *)
(*    is an exact fraction <<numerator, denominator>>; NaN is <<>>.        *)
(*    Floating-point rounding of the moving average is not modelled.       *)
(*  - Times are milliseconds.  The programs never look at a clock value    *)
(*    itself, only at "clock now minus stored timestamp", so every stored  *)
(*    timestamp is kept as the time elapsed since it was taken: writing    *)
(*    "stamp = now" sets the elapsed time to 0, the passing of time adds   *)
(*    to it, and it stops growing at a cap above every threshold it is     *)
(*    compared with.                                                       *)
(***************************************************************************)
EXTENDS Integers, Sequences, FiniteSets, TLC

VARIABLES
    \* ---- PhotoApp (Form1.cs) ----
    portOpen,         \* _port != null && _port.IsOpen
    chunk,            \* lines of the received chunk that Port_DataReceived has still to process
    last,             \* _last : the smoothing queue
    b,                \* local b of the line processed last (NaN or the smoothed value)
    sinceBelowStart,  \* UtcNow - _belowStart, or MinValue when _belowStart == DateTime.MinValue
    sinceAboveStart,  \* UtcNow - _aboveStart, or MinValue when _aboveStart == DateTime.MinValue
    slideshowOn,      \* _slideshowOn
    uiQueue,          \* delegates posted with BeginInvoke, not yet run by the UI thread
    numImages,        \* _images.Count
    imgIdx,           \* _imgIdx
    image,            \* pictureBox1.Image : NoImage or the index of the image shown
    timerOn,          \* _slideTimer.Enabled
    \* ---- observers of the PhotoApp (not program state) ----
    lastCmd,          \* the command posted last by Port_DataReceived
    belowRun,         \* time since the first sample of the current unbroken run of valid samples below StartThresh
    aboveRun,         \* time since the first sample of the current unbroken run of valid samples above StopThresh
    fed,              \* number of lines of the scenario fed so far (SpecScenario only)
    returnedEarly,    \* the last StartSlideshow or StopSlideshow run returned at its first line
    history,          \* the valid samples parsed so far, in arrival order (SpecSmooth only)
    \* ---- firmware (firmware.c) ----
    pc,               \* where loop() stands: "sense", "buttons", "game", "delay"
    turn,             \* turn : the level, the last index of the prefix in play
    currentStep,      \* currentStep
    showingSequence,  \* showingSequence
    waitingForInput,  \* waitingForInput
    sinceLastAction,  \* millis() - lastActionTime
    sinceLastBreath,  \* millis() - lastBreathUpdate
    stripA,           \* pixels of strip A: 0 all off, k > 0 the k-th colour of the breathing effect
    stripB,           \* pixels of strip B: "off" or "rainbow"
    dA,               \* local dA of the runUltrasonicSensing call just made
    dB,               \* local dB of the runUltrasonicSensing call just made
    \* ---- observers of the firmware (what the step just made wrote out) ----
    serialOut,        \* messages printed on Serial by the step
    toneCmd,          \* last tone() started by the step and not silenced: 0 none, i the note of button i
    noteOut,          \* the note playNote lit and sounded in the step: 0 none
    held,             \* the button read LOW by the last scan: 0 none (SpecHold only)
    holdTicks         \* consecutive scans that have read button held LOW (SpecHold only)

appVars == <<portOpen, chunk, last, b, sinceBelowStart, sinceAboveStart, slideshowOn,
             uiQueue, numImages, imgIdx, image, timerOn, lastCmd, belowRun, aboveRun, fed,
             returnedEarly, history>>

fwVars == <<pc, turn, currentStep, showingSequence, waitingForInput, sinceLastAction,
            sinceLastBreath, stripA, stripB, dA, dB, serialOut, toneCmd, noteOut,
            held, holdTicks>>

vars == <<appVars, fwVars>>

----------------------------------------------------------------------------
(* Program constants of Form1.cs *)
StartThresh == 280
StopThresh == 350
StartDebounce == 250
StopDebounce == 700
SmoothCount == 5
MinValue == -1

(* Bounds of the model *)
MaxChunk == 2
MaxPosted == 2
MaxImages == 2
MaxScenario == 9
MaxHistory == 7

RawValues == {250, 400}
(* A hand right at the sensor and a hand far from it: the moving average
   crosses from one side of the two thresholds to the other in one sample. *)
EdgeValues == {100, 1000}
TimeSteps == {100, 250}

NaN == <<>>
NoImage == -1

Min(x, y) == IF x < y THEN x ELSE y

----------------------------------------------------------------------------
(* Lines of the serial stream.  The firmware prints "A: <a> | B: <b>", each
   field "<number> cm" or the placeholder for a missing echo; the game's
   messages ("Turn 3", "Correct!") carry no B label.  A line is what the
   regular expression _bRegex can see of it: whether a "B:" label is there,
   whether a number follows it, and that number. *)
Lines ==
    [label : {TRUE}, numeric : {TRUE}, val : RawValues]
        \cup {[label |-> TRUE, numeric |-> FALSE, val |-> 0],
              [label |-> FALSE, numeric |-> TRUE, val |-> 0],
              [label |-> FALSE, numeric |-> FALSE, val |-> 0]}

Reading(v) == [label |-> TRUE, numeric |-> TRUE, val |-> v]

ParseDistanceBAsZero(line) ==
    IF line.label /\ line.numeric THEN <<line.val, 1>> ELSE <<0, 1>>

(* ParseDistanceB, lines 223-234. *)
ParseDistanceB(line) ==
    IF line.label /\ line.numeric THEN <<line.val, 1>> ELSE NaN

RECURSIVE SumSeq(_)
SumSeq(q) == IF q = <<>> THEN 0 ELSE Head(q) + SumSeq(Tail(q))

EnqueuedKeepsOldest(q, cm) ==
    IF Len(q) = SmoothCount THEN q ELSE Append(q, cm)

(* Smoothed, lines 239-240: the queue after the sample cm. *)
Enqueued(q, cm) ==
    IF Len(q) = SmoothCount THEN Append(Tail(q), cm) ELSE Append(q, cm)

MeanOfLatest(q) == IF Len(q) > 0 THEN <<q[Len(q)], 1>> ELSE NaN

(* Smoothed, lines 242-244: the value returned. *)
Mean(q) == IF Len(q) > 0 THEN <<SumSeq(q), Len(q)>> ELSE NaN

BelowStart(x) == x[1] < StartThresh * x[2]
AboveStop(x) == x[1] > StopThresh * x[2]

(* Lines 194 and 202: the timestamp is taken only when none is held. *)
Armed(since) == IF since = MinValue THEN 0 ELSE since

StartDueLate(on, since) == ~on /\ since > StartDebounce
StopDueEarly(on, since) == on /\ since >= StartDebounce

StartDue(on, since) == ~on /\ since >= StartDebounce
StopDue(on, since) == on /\ since >= StopDebounce

DeadZoneKeepsTimers ==
    [below |-> sinceBelowStart, above |-> sinceAboveStart, cmd |-> "NoChange"]

(* Lines 208-213: between the thresholds both edge timers are reset. *)
DeadZone == [below |-> MinValue, above |-> MinValue, cmd |-> "NoChange"]

DecideKeepsOpposite(x) ==
    IF BelowStart(x)
    THEN LET since == Armed(sinceBelowStart)
         IN  [below |-> since, above |-> sinceAboveStart,
              cmd |-> IF StartDue(slideshowOn, since) THEN "Start" ELSE "NoChange"]
    ELSE IF AboveStop(x)
    THEN LET since == Armed(sinceAboveStart)
         IN  [below |-> sinceBelowStart, above |-> since,
              cmd |-> IF StopDue(slideshowOn, since) THEN "Stop" ELSE "NoChange"]
    ELSE DeadZone

(* Lines 192-213, for the smoothed value x: the two timers after the line
   and the command posted with BeginInvoke ("NoChange": none). *)
Decide(x) ==
    IF BelowStart(x)
    THEN LET since == Armed(sinceBelowStart)
         IN  [below |-> since, above |-> MinValue,
              cmd |-> IF StartDue(slideshowOn, since) THEN "Start" ELSE "NoChange"]
    ELSE IF AboveStop(x)
    THEN LET since == Armed(sinceAboveStart)
         IN  [below |-> MinValue, above |-> since,
              cmd |-> IF StopDue(slideshowOn, since) THEN "Stop" ELSE "NoChange"]
    ELSE DeadZone

(* The observers: how long the current unbroken run of valid samples on one
   side of its threshold has lasted, told from the samples alone. *)
RunAfter(run, onSide) == IF onSide THEN Armed(run) ELSE MinValue

----------------------------------------------------------------------------
(* Slideshow control (UI thread) *)
UI == [on |-> slideshowOn, idx |-> imgIdx, img |-> image, timer |-> timerOn]

SetUI(u) ==
    /\ slideshowOn' = u.on
    /\ imgIdx' = u.idx
    /\ image' = u.img
    /\ timerOn' = u.timer

StartSlideshowAgain(u) ==
    IF numImages = 0 THEN [u EXCEPT !.on = TRUE]
    ELSE [on |-> TRUE, idx |-> 0, img |-> 0, timer |-> TRUE]

StopSlideshowClears(u) ==
    IF ~u.on THEN u
    ELSE [u EXCEPT !.on = FALSE, !.timer = FALSE, !.img = NoImage]

(* StartSlideshow, lines 248-258. *)
StartSlideshow(u) ==
    IF u.on THEN u
    ELSE IF numImages = 0 THEN [u EXCEPT !.on = TRUE]
    ELSE [on |-> TRUE, idx |-> 0, img |-> 0, timer |-> TRUE]

(* StopSlideshow, lines 260-266. *)
StopSlideshow(u) ==
    IF ~u.on THEN u
    ELSE [u EXCEPT !.on = FALSE, !.timer = FALSE]

AdvancePhotoNoWrap(u) ==
    IF numImages = 0 THEN u
    ELSE [u EXCEPT !.idx = u.idx + 1, !.img = u.idx + 1]

(* AdvancePhoto, lines 268-273. *)
AdvancePhoto(u) ==
    IF numImages = 0 THEN u
    ELSE [u EXCEPT !.idx = (u.idx + 1) % numImages, !.img = (u.idx + 1) % numImages]

----------------------------------------------------------------------------
(* State after the constructor Form1(): nothing connected, nothing shown,
   the images of the photo folder loaded. *)
InitApp ==
    /\ portOpen = FALSE
    /\ chunk = 0
    /\ last = <<>>
    /\ b = NaN
    /\ sinceBelowStart = MinValue
    /\ sinceAboveStart = MinValue
    /\ slideshowOn = FALSE
    /\ uiQueue = <<>>
    /\ numImages \in 0..MaxImages
    /\ imgIdx = 0
    /\ image = NoImage
    /\ timerOn = FALSE
    /\ lastCmd = "None"
    /\ belowRun = MinValue
    /\ aboveRun = MinValue
    /\ fed = 0
    /\ returnedEarly = FALSE
    /\ history = <<>>

(* button1_Click with a port selected and Open() succeeding. *)
Connect ==
    /\ ~portOpen
    /\ portOpen' = TRUE
    /\ UNCHANGED <<chunk, last, b, sinceBelowStart, sinceAboveStart, slideshowOn, uiQueue,
                   numImages, imgIdx, image, timerOn, lastCmd, belowRun, aboveRun, fed,
                   returnedEarly, history>>
    /\ UNCHANGED fwVars

(* button2_Click: SafeClosePort, StopSlideshow, clear the picture.  Close()
   returns only when no DataReceived handler is running. *)
Disconnect ==
    /\ portOpen
    /\ chunk = 0
    /\ portOpen' = FALSE
    /\ SetUI([StopSlideshow(UI) EXCEPT !.img = NoImage])
    /\ returnedEarly' = ~slideshowOn
    /\ UNCHANGED <<chunk, last, b, sinceBelowStart, sinceAboveStart, uiQueue,
                   numImages, lastCmd, belowRun, aboveRun, fed, history>>
    /\ UNCHANGED fwVars

(* Port_DataReceived, lines 176-181: a chunk of n lines is read and split. *)
DataReceived(n) ==
    /\ portOpen
    /\ chunk = 0
    /\ chunk' = n
    /\ UNCHANGED <<portOpen, last, b, sinceBelowStart, sinceAboveStart, slideshowOn, uiQueue,
                   numImages, imgIdx, image, timerOn, lastCmd, belowRun, aboveRun, fed,
                   returnedEarly, history>>
    /\ UNCHANGED fwVars

(* One iteration of the foreach of Port_DataReceived, lines 182-214.  The
   iteration is one instant: its two reads of DateTime.UtcNow give the same
   time, and _slideshowOn is read once.  The commands waiting for the UI
   thread are bounded by MaxPosted. *)
Ingest(line) ==
    LET cm == ParseDistanceB(line)
    IN  IF cm = NaN
        THEN /\ b' = NaN
             /\ UNCHANGED <<last, sinceBelowStart, sinceAboveStart, uiQueue,
                            lastCmd, belowRun, aboveRun>>
        ELSE LET q == Enqueued(last, cm[1])
                 x == Mean(q)
                 d == Decide(x)
             IN  /\ last' = q
                 /\ b' = x
                 /\ sinceBelowStart' = d.below
                 /\ sinceAboveStart' = d.above
                 /\ belowRun' = RunAfter(belowRun, x[1] < StartThresh * x[2])
                 /\ aboveRun' = RunAfter(aboveRun, x[1] > StopThresh * x[2])
                 /\ IF d.cmd = "NoChange"
                    THEN UNCHANGED <<uiQueue, lastCmd>>
                    ELSE /\ Len(uiQueue) < MaxPosted
                         /\ uiQueue' = Append(uiQueue, d.cmd)
                         /\ lastCmd' = d.cmd

ProcessLine(line) ==
    /\ chunk > 0
    /\ chunk' = chunk - 1
    /\ Ingest(line)
    /\ UNCHANGED <<portOpen, slideshowOn, numImages, imgIdx, image, timerOn, fed,
                   returnedEarly, history>>
    /\ UNCHANGED fwVars

(* The UI thread runs the delegate posted first. *)
RunStart ==
    /\ uiQueue # <<>>
    /\ Head(uiQueue) = "Start"
    /\ uiQueue' = Tail(uiQueue)
    /\ SetUI(StartSlideshow(UI))
    /\ returnedEarly' = slideshowOn
    /\ UNCHANGED <<portOpen, chunk, last, b, sinceBelowStart, sinceAboveStart,
                   numImages, lastCmd, belowRun, aboveRun, fed, history>>
    /\ UNCHANGED fwVars

RunStop ==
    /\ uiQueue # <<>>
    /\ Head(uiQueue) = "Stop"
    /\ uiQueue' = Tail(uiQueue)
    /\ SetUI(StopSlideshow(UI))
    /\ returnedEarly' = ~slideshowOn
    /\ UNCHANGED <<portOpen, chunk, last, b, sinceBelowStart, sinceAboveStart,
                   numImages, lastCmd, belowRun, aboveRun, fed, history>>
    /\ UNCHANGED fwVars

(* _slideTimer.Tick on the UI thread. *)
SlideTick ==
    /\ timerOn
    /\ SetUI(AdvancePhoto(UI))
    /\ UNCHANGED <<portOpen, chunk, last, b, sinceBelowStart, sinceAboveStart, uiQueue,
                   numImages, lastCmd, belowRun, aboveRun, fed,
                   returnedEarly, history>>
    /\ UNCHANGED fwVars

(* Time passes: every held timestamp grows older. *)
Aged(since, dt, cap) == IF since = MinValue THEN MinValue ELSE Min(since + dt, cap)

Elapse(dt) ==
    /\ sinceBelowStart' = Aged(sinceBelowStart, dt, StartDebounce)
    /\ sinceAboveStart' = Aged(sinceAboveStart, dt, StopDebounce)
    /\ belowRun' = Aged(belowRun, dt, StartDebounce)
    /\ aboveRun' = Aged(aboveRun, dt, StopDebounce)
    /\ UNCHANGED <<portOpen, chunk, last, b, slideshowOn, uiQueue,
                   numImages, imgIdx, image, timerOn, lastCmd, fed,
                   returnedEarly, history>>
    /\ UNCHANGED fwVars

(* The scenario of the specification: the lines "B: 4.0", "B: 4.0", "B: 2.5",
   "B: 2.5", "B: 2.5" in this order, and "B: 2.5" again for as long as the
   value is held. *)
ScenarioLines == <<400, 400, 250, 250, 250>>
ScenarioValue(k) == IF k <= Len(ScenarioLines) THEN ScenarioLines[k] ELSE 250

ScenarioLine ==
    /\ fed < MaxScenario
    /\ chunk > 0
    /\ chunk' = chunk - 1
    /\ fed' = fed + 1
    /\ Ingest(Reading(ScenarioValue(fed + 1)))
    /\ UNCHANGED <<portOpen, slideshowOn, numImages, imgIdx, image, timerOn,
                   returnedEarly, history>>
    /\ UNCHANGED fwVars

(* A line of any kind, the valid samples being recorded as they arrive; at
   most MaxHistory of them are followed. *)
SmoothLine(line) ==
    LET cm == ParseDistanceB(line)
    IN  /\ chunk > 0
        /\ cm # NaN => Len(history) < MaxHistory
        /\ chunk' = chunk - 1
        /\ Ingest(line)
        /\ history' = IF cm = NaN THEN history ELSE Append(history, cm[1])
        /\ UNCHANGED <<portOpen, slideshowOn, numImages, imgIdx, image, timerOn, fed,
                       returnedEarly>>
        /\ UNCHANGED fwVars

----------------------------------------------------------------------------
(* Firmware (firmware.c) *)

(* Program constants of firmware.c *)
STEP_DELAY == 800
BREATH_INTERVAL == 30
THRESH_CM == 300
NumButtons == 6

melody == <<3, 3, 4, 5, 5, 4, 3, 2, 1, 1, 2, 3, 3, 2, 2>>
melodyLength == Len(melody)

(* Blocking time of the feedback routines, from their delay() calls. *)
NoteTime == 300
LevelPause == 1000
FailTime == 3 * (400 + 400) + 1000
WinTime == 500 + 500 + 500 + 700 + 2000

(* Bounds of the model *)
NumFrames == 2
MaxHold == 2

(* A distance sample: NaN (no echo), or a distance in hundredths of a cm. *)
Samples == {NaN, <<250, 1>>, <<300, 1>>, <<350, 1>>}
(* An iteration of loop() lasts its delay(50) plus the echo waits. *)
TickTimes == {50, 100}
(* Spacing of two calls of the effect engine taken alone. *)
EngineTimes == {10, 20}

StepCap == STEP_DELAY + 1
BreathCap == BREATH_INTERVAL + 1

Later(since, dt, cap) == Min(since + dt, cap)

GateAtLeast(d) == d # NaN /\ d[1] >= THRESH_CM * d[2]
BreathDueAtInterval(since) == since >= BREATH_INTERVAL

(* Lines 133 and 143: the presence gate. *)
Gate(d) == d # NaN /\ d[1] > THRESH_CM * d[2]

(* Line 160: the rate limit of the breathing effect. *)
BreathDue(since) == since > BREATH_INTERVAL

(* The colour computed at lines 162-168 depends on millis(): each update
   writes the next colour. *)
NextFrame(strip) == (strip % NumFrames) + 1

(* showBreathingEffect, lines 159-178, on the strip and the time since
   lastBreathUpdate. *)
showBreathingEffect(e) ==
    IF BreathDue(e.since)
    THEN [strip |-> NextFrame(e.strip), since |-> 0]
    ELSE e

(* printDistance, lines 359-362: the field printed for a distance, the
   placeholder for NaN, else the number with two decimals and " cm". *)
printDistance(cm) ==
    IF cm = NaN
    THEN [numeric |-> FALSE, val |-> 0]
    ELSE [numeric |-> TRUE, val |-> (2 * cm[1] + cm[2]) \div (2 * cm[2])]

(* The report line of runUltrasonicSensing, lines 152-154, for the samples
   a and bb, as the application's regular expression sees it. *)
Report(a, bb) ==
    [label |-> TRUE, numeric |-> printDistance(bb).numeric, val |-> printDistance(bb).val]

(* clearStrip, lines 364-367. *)
clearStrip(e) == [e EXCEPT !.strip = 0]

(* Sensor A's half of runUltrasonicSensing, lines 131-139. *)
SenseA(d, e) == IF Gate(d) THEN showBreathingEffect(e) ELSE clearStrip(e)

(* Sensor B's half of runUltrasonicSensing, lines 142-147. *)
SenseB(d) == IF Gate(d) THEN "rainbow" ELSE "off"

(* runUltrasonicSensing with the samples a and bb read from the sensors. *)
RunUltrasonicSensing(a, bb) ==
    LET e == SenseA(a, [strip |-> stripA, since |-> sinceLastBreath])
    IN  /\ dA' = a
        /\ dB' = bb
        /\ stripA' = e.strip
        /\ sinceLastBreath' = e.since
        /\ stripB' = SenseB(bb)

(* The game's variables as a record, for the routines that change them:
   since is millis() - lastActionTime, spent the time the routine blocked,
   out, tone and note what it printed, left sounding and showed as a note. *)
Game ==
    [turn |-> turn, step |-> currentStep, showing |-> showingSequence,
     waiting |-> waitingForInput, since |-> sinceLastAction,
     spent |-> 0, out |-> <<>>, tone |-> 0, note |-> 0]

Say(g, msg) == [g EXCEPT !.out = Append(@, msg)]
Block(g, ms) == [g EXCEPT !.spent = @ + ms, !.since = Later(@, ms, StepCap)]

(* winSequence, lines 301-318. *)
winSequence(g) == Block([Say(g, "YOU WIN!") EXCEPT !.tone = 0], WinTime)

(* playNote, lines 270-279. *)
playNote(g, noteIndex) ==
    IF noteIndex - 1 >= 0 /\ noteIndex - 1 < NumButtons
    THEN Block([g EXCEPT !.tone = 0, !.note = noteIndex], NoteTime)
    ELSE g

failSequenceKeepsLevel(g) ==
    Block([Say(g, "FAIL! Restarting...")
              EXCEPT !.step = 0, !.showing = FALSE, !.waiting = FALSE, !.tone = 0],
          FailTime)

failSequenceKeepsWaiting(g) ==
    Block([Say(g, "FAIL! Restarting...")
              EXCEPT !.turn = 0, !.step = 0, !.showing = FALSE, !.tone = 0],
          FailTime)

(* failSequence, lines 281-299. *)
failSequence(g) ==
    Block([Say(g, "FAIL! Restarting...")
              EXCEPT !.turn = 0, !.step = 0, !.showing = FALSE, !.waiting = FALSE,
                     !.tone = 0],
          FailTime)

checkGameInputEarly(g, buttonPressed) ==
    IF ~g.waiting THEN g
    ELSE IF buttonPressed = melody[g.step + 1]
         THEN LET g1 == [Say(g, "Correct!") EXCEPT !.step = @ + 1]
              IN  IF g1.step >= g1.turn
                  THEN Block([Say(g1, "Good! Next level...")
                                 EXCEPT !.turn = @ + 1, !.waiting = FALSE],
                             LevelPause)
                  ELSE g1
         ELSE failSequence(Say(g, "Wrong! Try again."))

(* checkGameInput, lines 249-268. *)
checkGameInput(g, buttonPressed) ==
    IF ~g.waiting THEN g
    ELSE LET expectedNote == melody[g.step + 1]
         IN  IF buttonPressed = expectedNote
             THEN LET g1 == [Say(g, "Correct!") EXCEPT !.step = @ + 1]
                  IN  IF g1.step > g1.turn
                      THEN Block([Say(g1, "Good! Next level...")
                                     EXCEPT !.turn = @ + 1, !.waiting = FALSE],
                                 LevelPause)
                      ELSE g1
             ELSE failSequence(Say(g, "Wrong! Try again."))

ScanButtonTakesAnyPress(g, pressed, i) ==
    IF i \in pressed
    THEN checkGameInput([g EXCEPT !.tone = i, !.waiting = TRUE], i)
    ELSE g

ScanButtonOnEdge(g, pressed, i) ==
    IF i \in pressed
    THEN LET g1 == [g EXCEPT !.tone = i]
         IN  IF g1.waiting /\ i # held THEN checkGameInput(g1, i) ELSE g1
    ELSE g

(* The body of handleButtons' loop for button i, lines 208-215; pressed is
   the set of buttons read LOW. *)
ScanButton(g, pressed, i) ==
    IF i \in pressed
    THEN LET g1 == [g EXCEPT !.tone = i]
         IN  IF g1.waiting THEN checkGameInput(g1, i) ELSE g1
    ELSE g

(* handleButtons, lines 206-217: buttons i..6 in ascending order. *)
RECURSIVE ScanFrom(_, _, _)
ScanFrom(g, pressed, i) ==
    IF i > NumButtons THEN g
    ELSE ScanFrom(ScanButton(g, pressed, i), pressed, i + 1)

handleButtons(g, pressed) == ScanFrom(g, pressed, 1)

runMemoryGameOvershoots(g) ==
    IF g.turn >= melodyLength
    THEN [winSequence(g) EXCEPT !.turn = 0, !.step = 0, !.showing = FALSE,
                                !.waiting = FALSE]
    ELSE LET g1 == IF ~g.showing /\ ~g.waiting
                   THEN [Say(g, "Turn") EXCEPT !.showing = TRUE, !.step = 0]
                   ELSE g
         IN  IF g1.showing /\ g1.since > STEP_DELAY
             THEN IF g1.step <= g1.turn
                  THEN [playNote(g1, melody[g1.step + 1])
                           EXCEPT !.step = @ + 2, !.since = 0]
                  ELSE [Say(g1, "Your turn!")
                           EXCEPT !.showing = FALSE, !.waiting = TRUE, !.step = 0]
             ELSE g1

runMemoryGameSkipsLast(g) ==
    IF g.turn >= melodyLength
    THEN [winSequence(g) EXCEPT !.turn = 0, !.step = 0, !.showing = FALSE,
                                !.waiting = FALSE]
    ELSE LET g1 == IF ~g.showing /\ ~g.waiting
                   THEN [Say(g, "Turn") EXCEPT !.showing = TRUE, !.step = 0]
                   ELSE g
         IN  IF g1.showing /\ g1.since > STEP_DELAY
             THEN IF g1.step < g1.turn
                  THEN [playNote(g1, melody[g1.step + 1])
                           EXCEPT !.step = @ + 1, !.since = 0]
                  ELSE [Say(g1, "Your turn!")
                           EXCEPT !.showing = FALSE, !.waiting = TRUE, !.step = 0]
             ELSE g1

runMemoryGameKeepsShowing(g) ==
    IF g.turn >= melodyLength
    THEN [winSequence(g) EXCEPT !.turn = 0, !.step = 0, !.showing = FALSE,
                                !.waiting = FALSE]
    ELSE LET g1 == IF ~g.showing /\ ~g.waiting
                   THEN [Say(g, "Turn") EXCEPT !.showing = TRUE, !.step = 0]
                   ELSE g
         IN  IF g1.showing /\ g1.since > STEP_DELAY
             THEN IF g1.step <= g1.turn
                  THEN [playNote(g1, melody[g1.step + 1])
                           EXCEPT !.step = @ + 1, !.since = 0]
                  ELSE [Say(g1, "Your turn!") EXCEPT !.waiting = TRUE, !.step = 0]
             ELSE g1

(* runMemoryGame, lines 219-247. *)
runMemoryGame(g) ==
    IF g.turn >= melodyLength
    THEN [winSequence(g) EXCEPT !.turn = 0, !.step = 0, !.showing = FALSE,
                                !.waiting = FALSE]
    ELSE LET g1 == IF ~g.showing /\ ~g.waiting
                   THEN [Say(g, "Turn") EXCEPT !.showing = TRUE, !.step = 0]
                   ELSE g
         IN  IF g1.showing /\ g1.since > STEP_DELAY
             THEN IF g1.step <= g1.turn
                  THEN [playNote(g1, melody[g1.step + 1])
                           EXCEPT !.step = @ + 1, !.since = 0]
                  ELSE [Say(g1, "Your turn!")
                           EXCEPT !.showing = FALSE, !.waiting = TRUE, !.step = 0]
             ELSE g1

SetGame(g) ==
    /\ turn' = g.turn
    /\ currentStep' = g.step
    /\ showingSequence' = g.showing
    /\ waitingForInput' = g.waiting
    /\ sinceLastAction' = g.since
    /\ sinceLastBreath' = Later(sinceLastBreath, g.spent, BreathCap)
    /\ serialOut' = g.out
    /\ toneCmd' = g.tone
    /\ noteOut' = g.note

(* State after setup(): the startup melody has taken 6.5 s, both stamps are
   still 0, the strips are dark. *)
InitFw ==
    /\ pc = "sense"
    /\ turn = 0
    /\ currentStep = 0
    /\ showingSequence = FALSE
    /\ waitingForInput = FALSE
    /\ sinceLastAction = StepCap
    /\ sinceLastBreath = BreathCap
    /\ stripA = 0
    /\ stripB = "off"
    /\ dA = NaN
    /\ dB = NaN
    /\ serialOut = <<>>
    /\ toneCmd = 0
    /\ noteOut = 0
    /\ held = 0
    /\ holdTicks = 0

(* loop(), line 118. *)
FwSense ==
    /\ pc = "sense"
    /\ pc' = "buttons"
    /\ \E a \in Samples, bb \in Samples : RunUltrasonicSensing(a, bb)
    /\ serialOut' = <<>>
    /\ toneCmd' = 0
    /\ noteOut' = 0
    /\ UNCHANGED <<turn, currentStep, showingSequence, waitingForInput, sinceLastAction,
                   held, holdTicks>>
    /\ UNCHANGED appVars

(* loop(), line 121. *)
FwButtons ==
    /\ pc = "buttons"
    /\ pc' = "game"
    /\ \E pressed \in SUBSET (1..NumButtons) : SetGame(handleButtons(Game, pressed))
    /\ dA' = NaN
    /\ dB' = NaN
    /\ UNCHANGED <<stripA, stripB, held, holdTicks>>
    /\ UNCHANGED appVars

(* loop(), line 124. *)
FwGame ==
    /\ pc = "game"
    /\ pc' = "delay"
    /\ SetGame(runMemoryGame(Game))
    /\ UNCHANGED <<stripA, stripB, dA, dB, held, holdTicks>>
    /\ UNCHANGED appVars

(* loop(), line 126, and the start of the next iteration. *)
FwDelay ==
    /\ pc = "delay"
    /\ pc' = "sense"
    /\ \E dt \in TickTimes :
          /\ sinceLastAction' = Later(sinceLastAction, dt, StepCap)
          /\ sinceLastBreath' = Later(sinceLastBreath, dt, BreathCap)
    /\ serialOut' = <<>>
    /\ toneCmd' = 0
    /\ noteOut' = 0
    /\ UNCHANGED <<turn, currentStep, showingSequence, waitingForInput, stripA, stripB, dA, dB,
                   held, holdTicks>>
    /\ UNCHANGED appVars

NextFw == FwSense \/ FwButtons \/ FwGame \/ FwDelay

(* One button at most, pressed, held and released at will, with nothing in
   front of the sensors: loop() with the scans followed one after the other. *)
HoldSense ==
    /\ pc = "sense"
    /\ pc' = "buttons"
    /\ RunUltrasonicSensing(NaN, NaN)
    /\ serialOut' = <<>>
    /\ toneCmd' = 0
    /\ noteOut' = 0
    /\ UNCHANGED <<turn, currentStep, showingSequence, waitingForInput, sinceLastAction,
                   held, holdTicks>>
    /\ UNCHANGED appVars

HoldScan(i) ==
    /\ pc = "buttons"
    /\ pc' = "game"
    /\ SetGame(handleButtons(Game, IF i = 0 THEN {} ELSE {i}))
    /\ dA' = NaN
    /\ dB' = NaN
    /\ held' = i
    /\ holdTicks' = IF i = 0 THEN 0
                    ELSE IF i = held THEN Min(holdTicks + 1, MaxHold)
                    ELSE 1
    /\ UNCHANGED <<stripA, stripB>>
    /\ UNCHANGED appVars

NextHold ==
    \/ HoldSense
    \/ \E i \in 0..NumButtons : HoldScan(i)
    \/ FwGame
    \/ FwDelay

(* The gate and the effect engine taken alone: runUltrasonicSensing called
   at any spacing, the rest of the iteration being only the time it takes. *)
EngineTick ==
    /\ pc = "sense"
    /\ pc' = "buttons"
    /\ \E a \in Samples, bb \in Samples : RunUltrasonicSensing(a, bb)
    /\ UNCHANGED <<turn, currentStep, showingSequence, waitingForInput, sinceLastAction,
                   serialOut, toneCmd, noteOut, held, holdTicks>>
    /\ UNCHANGED appVars

EngineWait ==
    /\ pc = "buttons"
    /\ pc' = "sense"
    /\ \E dt \in EngineTimes : sinceLastBreath' = Later(sinceLastBreath, dt, BreathCap)
    /\ UNCHANGED <<turn, currentStep, showingSequence, waitingForInput, sinceLastAction,
                   stripA, stripB, dA, dB, serialOut, toneCmd, noteOut, held, holdTicks>>
    /\ UNCHANGED appVars

NextEngine == EngineTick \/ EngineWait

NextApp ==
    \/ Connect
    \/ Disconnect
    \/ \E n \in 1..MaxChunk : DataReceived(n)
    \/ \E line \in Lines : ProcessLine(line)
    \/ RunStart
    \/ RunStop
    \/ SlideTick
    \/ \E dt \in TimeSteps : Elapse(dt)

Init == InitApp /\ InitFw

(* The firmware alone: the desktop application plays no part. *)
InitFirmware == Init /\ numImages = 0

SpecApp == Init /\ [][NextApp]_vars

NextScenario ==
    \/ Connect
    \/ \E n \in 1..MaxChunk : DataReceived(n)
    \/ ScenarioLine
    \/ RunStart
    \/ SlideTick
    \/ \E dt \in TimeSteps : Elapse(dt)

SpecScenario == Init /\ [][NextScenario]_vars

(* The conditioner fed with readings that jump between near and far. *)
NextEdges ==
    \/ Connect
    \/ \E n \in 1..MaxChunk : DataReceived(n)
    \/ \E v \in EdgeValues : ProcessLine(Reading(v))
    \/ RunStart
    \/ RunStop
    \/ \E dt \in TimeSteps : Elapse(dt)

SpecEdges == Init /\ [][NextEdges]_vars

(* The smoothing followed sample by sample: lines arrive back to back. *)
NextSmooth ==
    \/ Connect
    \/ \E n \in 1..MaxChunk : DataReceived(n)
    \/ \E line \in Lines : SmoothLine(line)

SpecSmooth == Init /\ [][NextSmooth]_vars

SpecFw == InitFirmware /\ [][NextFw]_vars

SpecEngine == InitFirmware /\ [][NextEngine]_vars

SpecHold == InitFirmware /\ [][NextHold]_vars

----------------------------------------------------------------------------
(* Properties of the signal conditioner (Port_DataReceived) *)

(* A step of Port_DataReceived's loop, and the posting of command c in it. *)
IsIngest == chunk' = chunk - 1
Emits(c) == uiQueue' = Append(uiQueue, c)
InDeadZone(x) == x # NaN /\ ~BelowStart(x) /\ ~AboveStop(x)

(* C1: the conditioner never posts a Start after an earlier Start unless a
   Stop was posted in between, and never posts a Stop after an earlier Stop,
   or before any Start, unless a Start was posted in between. *)
C1_NoRepeatedCommand ==
    [][/\ Emits("Start") => lastCmd # "Start"
       /\ Emits("Stop") => lastCmd = "Start"]_vars

(* C2: while the slideshow flag is off, a line posts a Start only when the
   current unbroken run of valid below-threshold samples has lasted at least
   250 ms, and a below-threshold sample ingested at least 250 ms after the
   first sample of such a run posts exactly one Start. *)
C2_StartDebounce ==
    [][/\ Emits("Start") =>
             /\ IsIngest
             /\ ~slideshowOn
             /\ belowRun' # MinValue
             /\ belowRun' >= StartDebounce
       /\ (/\ IsIngest
           /\ ~slideshowOn
           /\ b' # NaN
           /\ BelowStart(b')
           /\ belowRun # MinValue
           /\ belowRun >= StartDebounce) => Emits("Start")]_vars

C2_Witness ==
    /\ uiQueue = <<"Start">>
    /\ lastCmd = "Start"
    /\ ~slideshowOn
    /\ BelowStart(b)
    /\ belowRun = StartDebounce

(* C3: a Stop is posted only by a line ingested while the slideshow flag is
   on and whose smoothed value ends a run of valid samples above 3.5 that has
   lasted at least 700 ms; the first sample of such a run never posts it. *)
C3_StopDebounce ==
    [][Emits("Stop") =>
          /\ IsIngest
          /\ slideshowOn
          /\ AboveStop(b')
          /\ aboveRun # MinValue
          /\ aboveRun' >= StopDebounce]_vars

C3_Witness ==
    /\ uiQueue = <<"Stop">>
    /\ lastCmd = "Stop"
    /\ slideshowOn
    /\ AboveStop(b)
    /\ aboveRun = StopDebounce

(* C4: a line whose smoothed value lies in the dead zone [2.8, 3.5] clears
   both edge timers and posts nothing, whatever the state before it. *)
C4_DeadZone ==
    [][(IsIngest /\ InDeadZone(b')) =>
          /\ sinceBelowStart' = MinValue
          /\ sinceAboveStart' = MinValue
          /\ belowRun' = MinValue
          /\ aboveRun' = MinValue
          /\ uiQueue' = uiQueue
          /\ slideshowOn' = slideshowOn]_vars

C4_Witness ==
    /\ InDeadZone(b)
    /\ slideshowOn
    /\ Len(last) = SmoothCount
    /\ sinceBelowStart = MinValue
    /\ sinceAboveStart = MinValue

(* C5 as stated: after the five lines of the scenario the moving average is
   below 2.8 (and no Stop has been posted). *)
C5_AsStated ==
    fed = Len(ScenarioLines) => (BelowStart(b) /\ lastCmd # "Stop")

(* C5 amended: the five lines leave the moving average at 3.1, in the dead
   zone, and post nothing; held further, the value brings the average to 2.8
   at the sixth line and below it at the seventh, and a Start is posted only
   by a later line, at least 250 ms after the seventh; no Stop is posted. *)
C5_Scenario ==
    /\ lastCmd # "Stop"
    /\ fed = 3 => b = <<1050, 3>>
    /\ fed = 4 => b = <<1300, 4>>
    /\ fed = 5 => (b = <<1550, 5>> /\ InDeadZone(b))
    /\ fed = 6 => (b = <<1400, 5>> /\ InDeadZone(b))
    /\ fed <= 6 => sinceBelowStart = MinValue
    /\ fed \in 3..6 => sinceAboveStart = MinValue
    /\ fed >= 7 => BelowStart(b)
    /\ fed <= 7 => (lastCmd = "None" /\ uiQueue = <<>> /\ ~slideshowOn)
    /\ lastCmd = "Start" => (fed >= 8 /\ belowRun >= StartDebounce)

C5_Witness ==
    /\ fed = 8
    /\ lastCmd = "Start"
    /\ uiQueue = <<"Start">>

----------------------------------------------------------------------------
(* Properties of the firmware *)

IsSensing == pc = "sense" /\ pc' = "buttons"
IsButtons == pc = "buttons" /\ pc' = "game"
IsGame == pc = "game" /\ pc' = "delay"
Idle == ~showingSequence /\ ~waitingForInput
Printed(msg) == \E k \in 1..Len(serialOut) : serialOut[k] = msg
OverThreshold(d) == d # NaN /\ d[1] > 300 * d[2]

(* C6: in AwaitingInput the correct button advances the step and, on the
   last note of the prefix, the level by one; a scan that judges no wrong
   input never lowers the level, nor does runMemoryGame below level 15; at
   level 15 runMemoryGame plays the win sequence and leaves level 0, step 0,
   Idle; and from Idle the next runMemoryGame shows the first note. *)
C6_GameCorrectness ==
    /\ [](waitingForInput =>
            LET g == checkGameInput(Game, melody[currentStep + 1])
            IN  IF currentStep = turn
                THEN g.turn = turn + 1 /\ ~g.waiting /\ ~g.showing
                ELSE g.turn = turn /\ g.step = currentStep + 1 /\ g.waiting)
    /\ [][/\ (IsButtons /\ ~Printed("Wrong! Try again.")')
                => (turn' \in {turn, turn + 1} /\ turn' <= melodyLength)
          /\ (IsGame /\ turn < melodyLength) => (turn' = turn /\ ~Printed("YOU WIN!")')
          /\ (IsGame /\ turn = melodyLength)
                => /\ Printed("YOU WIN!")'
                   /\ turn' = 0
                   /\ currentStep' = 0
                   /\ Idle'
          /\ (IsGame /\ Idle /\ turn < melodyLength)
                => /\ showingSequence'
                   /\ ~waitingForInput'
                   /\ currentStep' = 1
                   /\ sinceLastAction' = 0]_vars

C6_Witness ==
    /\ pc = "delay"
    /\ serialOut = <<"YOU WIN!">>
    /\ turn = 0
    /\ currentStep = 0
    /\ Idle

(* C7: in AwaitingInput, at any level and step, a button other than
   melody[currentStep] runs failSequence and leaves level 0, step 0 and
   Idle; the scan that judged it ends in that state. *)
C7_GameFailure ==
    /\ [](waitingForInput =>
            \A button \in 1..NumButtons :
                button # melody[currentStep + 1] =>
                    LET g == checkGameInput(Game, button)
                    IN  /\ g.turn = 0
                        /\ g.step = 0
                        /\ ~g.showing
                        /\ ~g.waiting
                        /\ g.out = <<"Wrong! Try again.", "FAIL! Restarting...">>)
    /\ [][(IsButtons /\ Printed("Wrong! Try again.")')
             => /\ waitingForInput
                /\ Printed("FAIL! Restarting...")'
                /\ turn' = 0
                /\ currentStep' = 0
                /\ Idle']_vars

C7_Witness ==
    /\ pc = "game"
    /\ serialOut = <<"Correct!", "Wrong! Try again.", "FAIL! Restarting...">>
    /\ turn = 0
    /\ currentStep = 0
    /\ Idle

(* C8: a scan of the buttons made while the game is not waiting for input
   changes neither level, step nor mode and judges nothing, whatever is
   pressed. *)
C8_FeedbackOnly ==
    [][(IsButtons /\ ~waitingForInput)
          => /\ turn' = turn
             /\ currentStep' = currentStep
             /\ showingSequence' = showingSequence
             /\ waitingForInput' = waitingForInput
             /\ sinceLastAction' = sinceLastAction
             /\ serialOut' = <<>>]_vars

C8_Witness ==
    /\ pc = "game"
    /\ showingSequence
    /\ currentStep = 1
    /\ toneCmd = melody[currentStep + 1]
    /\ serialOut = <<>>

(* C9: after every call of runUltrasonicSensing each strip shows its effect
   exactly when this call's sample is a number above 3.0 and is dark
   otherwise (3.0 itself is dark), whatever the earlier samples were. *)
C9_PresenceGate ==
    pc = "buttons" =>
        /\ (stripA # 0) = OverThreshold(dA)
        /\ OverThreshold(dA) => sinceLastBreath = 0
        /\ (stripB = "rainbow") = OverThreshold(dB)
        /\ (stripB = "off") = ~OverThreshold(dB)

C9_Witness ==
    /\ pc = "buttons"
    /\ dA = <<300, 1>>
    /\ stripA = 0
    /\ dB = <<350, 1>>
    /\ stripB = "rainbow"
    /\ turn = 1

(* A breathing update: a new colour on strip A, lastBreathUpdate = now. *)
BreathFired == stripA' = NextFrame(stripA) /\ sinceLastBreath' = 0

----------------------------------------------------------------------------
(* Properties of the slideshow and of the line-arrival callback *)

IsRunStart == uiQueue # <<>> /\ Head(uiQueue) = "Start" /\ uiQueue' = Tail(uiQueue)
IsRunStop == uiQueue # <<>> /\ Head(uiQueue) = "Stop" /\ uiQueue' = Tail(uiQueue)
IsDisconnect == portOpen /\ ~portOpen'
Unparsable(line) == ~(line.label /\ line.numeric)
TimerSet(since) == since # MinValue
LastN(q, n) == IF Len(q) <= n THEN q ELSE SubSeq(q, Len(q) - n + 1, Len(q))

(* C11: StopSlideshow, whenever it is run, leaves the picture as it is and
   the slide timer stopped, and a picture on display is taken away by no step
   other than a manual disconnect. *)
C11_NoClearOnStop ==
    /\ [](StopSlideshow(UI).img = image /\ ~StopSlideshow(UI).timer)
    /\ [][/\ IsRunStop => (image' = image /\ ~timerOn' /\ ~slideshowOn')
          /\ (image # NoImage /\ image' = NoImage) => IsDisconnect]_vars

C11_Witness ==
    /\ portOpen
    /\ returnedEarly
    /\ ~slideshowOn
    /\ ~timerOn
    /\ image = 1
    /\ lastCmd = "Stop"

(* C12: the firmware's report of a missing echo is a line without a number
   after "B:", and a line without a parsable B value changes neither the
   smoothing queue, nor the two edge timers, nor the slideshow flag, and
   posts nothing; no sample, 0 or other, is taken from it. *)
C12_DropsUnparsable ==
    /\ [](\A a \in Samples :
             /\ Report(a, NaN) \in Lines
             /\ Unparsable(Report(a, NaN))
             /\ ParseDistanceB(Report(a, NaN)) = NaN)
    /\ [][\A line \in Lines :
             (Unparsable(line) /\ ProcessLine(line)) =>
                 /\ b' = NaN
                 /\ UNCHANGED <<last, sinceBelowStart, sinceAboveStart, belowRun, aboveRun,
                                slideshowOn, uiQueue, lastCmd>>]_vars

C12_Witness ==
    /\ b = NaN
    /\ Len(last) = 2
    /\ sinceBelowStart = StartDebounce
    /\ slideshowOn
    /\ uiQueue = <<>>
    /\ chunk = 0

(* C13: the smoothing queue, the two edge timers and the slideshow flag are
   written by no step other than an iteration of Port_DataReceived's loop. *)
C13_SingleWriter ==
    [][IsIngest \/ (/\ last' = last
                    /\ TimerSet(sinceBelowStart') = TimerSet(sinceBelowStart)
                    /\ TimerSet(sinceAboveStart') = TimerSet(sinceAboveStart)
                    /\ slideshowOn' = slideshowOn)]_vars

(* C17: the smoothing queue is the last min(n, 5) of the n valid samples
   parsed so far, in arrival order and nothing else, and the value the
   thresholds are applied to is the arithmetic mean of the queue. *)
C17_Smoothing ==
    LET w == LastN(history, 5)
    IN  /\ last = w
        /\ Len(last) = Min(Len(history), 5)
        /\ \A k \in 1..Len(last) : last[k] \in RawValues
        /\ b # NaN =>
              /\ b = <<SumSeq(w), Len(w)>>
              /\ TimerSet(sinceBelowStart) = (b[1] < 280 * b[2])
              /\ TimerSet(sinceAboveStart) = (b[1] > 350 * b[2])

C17_Witness ==
    /\ Len(history) = 7
    /\ history[1] = 400
    /\ history[2] = 250
    /\ last = <<250, 400, 400, 250, 400>>
    /\ b = NaN

(* C18: StartSlideshow run with the slideshow on, and StopSlideshow run with
   it off, leave the flag, the image index, the picture and the timer as
   they were. *)
C18_Idempotence ==
    /\ [](slideshowOn => StartSlideshow(UI) = UI)
    /\ [](~slideshowOn => StopSlideshow(UI) = UI)
    /\ [][((IsRunStart /\ slideshowOn) \/ (IsRunStop /\ ~slideshowOn))
             => UNCHANGED <<slideshowOn, imgIdx, image, timerOn>>]_vars

C18_Witness ==
    /\ returnedEarly
    /\ slideshowOn
    /\ timerOn
    /\ imgIdx = 1
    /\ image = 1
    /\ uiQueue = <<>>

(* C19: while the port is closed the slideshow is off, the slide timer is
   stopped and no picture is shown. *)
C19_Quiescence ==
    ~portOpen => (~slideshowOn /\ ~timerOn /\ image = NoImage)

----------------------------------------------------------------------------
(* Properties of the buttons and of the game *)

RECURSIVE Count(_, _)
Count(q, msg) ==
    IF q = <<>> THEN 0 ELSE (IF Head(q) = msg THEN 1 ELSE 0) + Count(Tail(q), msg)

Verdict(msg) == msg \in {"Good! Next level...", "FAIL! Restarting..."}

(* C14: a scan that reads LOW the button the scan before it read LOW gives
   the feedback again (the tone sounds unless the fail sequence silenced it)
   and, when the game is waiting for input, judges the button again against
   melody[currentStep]: a match advances the step or completes the level, a
   mismatch fails; when the game is not waiting nothing is judged. *)
C14_LevelTriggered ==
    [][\A i \in 1..NumButtons :
          (IsButtons /\ held = i /\ held' = i) =>
              /\ toneCmd' = i \/ Printed("FAIL! Restarting...")'
              /\ (waitingForInput /\ i = melody[currentStep + 1]) =>
                    /\ Len(serialOut') > 0
                    /\ serialOut'[1] = "Correct!"
                    /\ IF currentStep = turn
                       THEN turn' = turn + 1 /\ ~waitingForInput'
                       ELSE /\ turn' = turn
                            /\ currentStep' = currentStep + 1
                            /\ waitingForInput'
              /\ (waitingForInput /\ i # melody[currentStep + 1]) =>
                    /\ Len(serialOut') > 0
                    /\ serialOut'[1] = "Wrong! Try again."
                    /\ turn' = 0
                    /\ currentStep' = 0
                    /\ Idle'
              /\ ~waitingForInput =>
                    /\ serialOut' = <<>>
                    /\ UNCHANGED <<turn, currentStep, showingSequence, waitingForInput>>]_vars

C14_Witness ==
    /\ pc = "game"
    /\ held = 3
    /\ holdTicks = 2
    /\ turn = 2
    /\ serialOut = <<"Correct!", "Good! Next level...">>

(* C15: the level is within 0..15 and the step within 0..level + 1 in every
   state; whenever melody[currentStep] is read, in Showing and in
   checkGameInput, the step is at most the level and the level below 15; the
   melody has its 15 notes. *)
C15_GameBounds ==
    /\ melodyLength = 15
    /\ turn \in 0..15
    /\ currentStep \in 0..(turn + 1)
    /\ waitingForInput => (currentStep <= turn /\ turn < 15)
    /\ showingSequence => turn < 15

C15_Witness ==
    /\ pc = "game"
    /\ turn = 15
    /\ currentStep = 15
    /\ Idle

(* C16: in Showing a note is shown only by a call of runMemoryGame made more
   than 800 ms after lastActionTime, one note a call, the notes being
   melody[0], melody[1], ... up to melody[level] in this order; the game
   starts waiting for input only in a later such call, made when the step
   has passed the level, and with the step back at 0; Showing ends in no
   other way. *)
C16_ShowingPass ==
    [][/\ noteOut' # 0 =>
             /\ IsGame
             /\ showingSequence'
             /\ sinceLastAction > 800
             /\ currentStep' = (IF showingSequence THEN currentStep ELSE 0) + 1
             /\ currentStep' <= turn + 1
             /\ noteOut' = melody[currentStep']
             /\ sinceLastAction' = 0
             /\ turn' = turn
       /\ (showingSequence /\ showingSequence') =>
             /\ turn' = turn
             /\ currentStep' = currentStep \/ noteOut' # 0
       /\ (~showingSequence /\ showingSequence') =>
             /\ IsGame
             /\ Idle
             /\ currentStep' = 0 \/ noteOut' # 0
       /\ (showingSequence /\ ~showingSequence') => waitingForInput'
       /\ (~waitingForInput /\ waitingForInput') =>
             /\ IsGame
             /\ showingSequence
             /\ ~showingSequence'
             /\ sinceLastAction > 800
             /\ currentStep = turn + 1
             /\ currentStep' = 0
             /\ noteOut' = 0
             /\ turn' = turn]_vars

C16_Witness ==
    /\ pc = "delay"
    /\ waitingForInput
    /\ serialOut = <<"Your turn!">>
    /\ turn = 2
    /\ currentStep = 0

(* C20: one scan of the buttons prints at most one verdict (level completed
   or failure), the verdict is the last thing the scan prints and leaves the
   game not waiting for input, so that no button scanned after it is judged;
   the level after the scan is the level before, that plus one, or 0. *)
C20_OneVerdictPerScan ==
    [][IsButtons =>
          /\ Count(serialOut', "Good! Next level...")
                + Count(serialOut', "FAIL! Restarting...") <= 1
          /\ \A k \in 1..Len(serialOut') :
                Verdict(serialOut'[k]) => (k = Len(serialOut') /\ ~waitingForInput')
          /\ turn' \in {turn, turn + 1, 0}
          /\ turn' # turn => ~waitingForInput']_vars

C20_Witness ==
    /\ pc = "game"
    /\ serialOut = <<"Correct!", "Correct!", "Correct!", "Good! Next level...">>
    /\ turn = 4
    /\ toneCmd = 6

(* C21: showingSequence and waitingForInput are never both true, and a call
   of runMemoryGame made in Idle below level 15 leaves the game in Showing. *)
C21_ModeWellDefined ==
    /\ [](~(showingSequence /\ waitingForInput))
    /\ [][(IsGame /\ Idle /\ turn < 15)
             => (showingSequence' /\ ~waitingForInput' /\ turn' = turn)]_vars

C21_Witness ==
    /\ pc = "delay"
    /\ showingSequence
    /\ ~waitingForInput
    /\ serialOut = <<"Turn">>
    /\ turn = 3
    /\ currentStep = 1

----------------------------------------------------------------------------
(* Properties of the edge timers and of the slideshow state *)

(* C22: _belowStart and _aboveStart are never both set; each, when set, is
   the time of the first sample of the current unbroken run of valid samples
   on its side; a sample below 2.8 leaves _belowStart set and _aboveStart
   clear, a sample above 3.5 the reverse, a sample between clears both, and
   a sample that continues a run does not restart its timer. *)
C22_EdgeTimers ==
    /\ [](/\ ~(TimerSet(sinceBelowStart) /\ TimerSet(sinceAboveStart))
          /\ sinceBelowStart = belowRun
          /\ sinceAboveStart = aboveRun)
    /\ [][(IsIngest /\ b' # NaN) =>
             /\ BelowStart(b') =>
                   (TimerSet(sinceBelowStart') /\ ~TimerSet(sinceAboveStart'))
             /\ AboveStop(b') =>
                   (TimerSet(sinceAboveStart') /\ ~TimerSet(sinceBelowStart'))
             /\ InDeadZone(b') =>
                   (~TimerSet(sinceBelowStart') /\ ~TimerSet(sinceAboveStart'))
             /\ (BelowStart(b') /\ TimerSet(sinceBelowStart)) =>
                   sinceBelowStart' = sinceBelowStart
             /\ (AboveStop(b') /\ TimerSet(sinceAboveStart)) =>
                   sinceAboveStart' = sinceAboveStart]_vars

C22_Witness ==
    /\ last = <<100, 100, 1000>>
    /\ AboveStop(b)
    /\ sinceAboveStart = 0
    /\ aboveRun = 0
    /\ sinceBelowStart = MinValue
    /\ belowRun = MinValue

(* C23: the slide timer runs only with the slideshow on and at least one
   image loaded; the image index is within the collection and the picture
   shown, if any, is the indexed one; StartSlideshow with no image loaded
   turns the flag on, shows nothing and starts no timer, and with images
   shows the first and starts the timer; AdvancePhoto with no image changes
   nothing, and otherwise moves the index by one modulo the count; the index
   moves in no other way. *)
C23_SlideshowConsistency ==
    /\ [](/\ timerOn => (slideshowOn /\ numImages > 0)
          /\ imgIdx \in 0..(IF numImages = 0 THEN 0 ELSE numImages - 1)
          /\ image \in {NoImage, imgIdx}
          /\ numImages = 0 => (image = NoImage /\ AdvancePhoto(UI) = UI)
          /\ numImages > 0 =>
                /\ AdvancePhoto(UI).idx = (imgIdx + 1) % numImages
                /\ AdvancePhoto(UI).img = (imgIdx + 1) % numImages)
    /\ [][/\ (IsRunStart /\ ~slideshowOn /\ numImages = 0) =>
                (slideshowOn' /\ ~timerOn' /\ image' = NoImage /\ imgIdx' = imgIdx)
          /\ (IsRunStart /\ ~slideshowOn /\ numImages > 0) =>
                (slideshowOn' /\ timerOn' /\ image' = 0 /\ imgIdx' = 0)
          /\ imgIdx' # imgIdx =>
                /\ numImages > 0
                /\ \/ IsRunStart
                   \/ /\ timerOn
                      /\ imgIdx' = (imgIdx + 1) % numImages
                      /\ image' = imgIdx'
          /\ numImages' = numImages]_vars

C23_Witness ==
    /\ portOpen
    /\ numImages = 0
    /\ slideshowOn
    /\ ~returnedEarly
    /\ ~timerOn
    /\ image = NoImage
    /\ lastCmd = "Start"
    /\ uiQueue = <<>>

============================================================================
